---- MODULE Spec2Model ----
(***************************************************************************)
(* omniglot/model.py: SiameseNetwork.  The module is compiled, a network   *)
(* is constructed (SiameseNetwork.__init__ -> BaseNetwork.__init__ ->      *)
(* build), called on lists of image tensors, and its parameters are        *)
(* updated from outside between calls.                                     *)
(*                                                                         *)
(* Shapes are tracked exactly (batch, height, width, channels).  Tensor    *)
(* contents are tracked on VDim sampled components in integer arithmetic:  *)
(* an image is uniform with one pixel value, a convolution kernel has one  *)
(* fan-in-normalised weight, a dense layer one weight per sampled unit,    *)
(* and the sigmoid is a hard sigmoid offset by one half (0 stands for      *)
(* 1/2), saturating at -Sat and Sat.                                       *)
(***************************************************************************)
EXTENDS Integers, Sequences, FiniteSets, TLC

VARIABLES
  pc,        \* "source", "loaded", "ready" or "error"
  line61,    \* the activation argument as line 61 spells it
  ctor,      \* the num_classes argument the constructor was given
  net,       \* the constructed network
  store,     \* the parameter sets that exist, by handle
  last,      \* the last call since the parameters last changed: its inputs,
             \* intermediate tensors and outcome
  errStage   \* where compilation or construction failed

vars == <<pc, line61, ctor, net, store, last, errStage>>

\* ------------------------------------------------------------------ bounds
MaxPixel == 1      \* pixel values 0..MaxPixel
MaxWeight == 2     \* weights 0..MaxWeight (convolution: -1..MaxWeight)
MaxArity == 3      \* length of the collection handed to call: 0..MaxArity
MaxClasses == 2    \* num_classes argument: 1..MaxClasses
VDim == 2          \* sampled components of a vector
Sat == 3           \* saturation of the fixed-point sigmoid

\* --------------------------------------------------------------- utilities
Abs(z) == IF z < 0 THEN -z ELSE z

Min(a, b) == IF a < b THEN a ELSE b

Relu(z) == IF z < 0 THEN 0 ELSE z

Sigmoid(z) == IF z > Sat THEN Sat ELSE IF z < -Sat THEN -Sat ELSE z

RECURSIVE SumSeq(_)
SumSeq(s) == IF s = <<>> THEN 0 ELSE Head(s) + SumSeq(Tail(s))

\* kwargs.get(key, default)
Get(kw, key, default) == IF key \in DOMAIN kw THEN kw[key] ELSE default

NoKwargs == [k \in {} |-> 0]

\* The text of the activation argument on line 61: as committed, and as the
\* sibling layers (lines 56, 66, 71) write it.
Line61Texts == {"tf.'relu'", "relu"}

DefaultShape == <<105, 105, 1>>

SmallShape == <<28, 28, 1>>

\* ----------------------------------------------------------------- tensors
NoTensor == [shape |-> <<>>, val |-> <<>>]

\* np.random.randn(1, h, w, c) -> tf.constant: batch of one image
Image(shape, px) == [shape |-> <<1>> \o shape, val |-> <<px>>]

Images == {Image(DefaultShape, p) : p \in 0..MaxPixel} \cup {Image(SmallShape, 0)}

\* ------------------------------------------------------------------ layers
Conv2D(f, k, act) == [kind |-> "conv", n |-> f, k |-> k, act |-> act]

MaxPool2D(k) == [kind |-> "pool", n |-> 0, k |-> k, act |-> "none"]

Flatten == [kind |-> "flatten", n |-> 0, k |-> 0, act |-> "none"]

Dense(u, act) == [kind |-> "dense", n |-> u, k |-> 0, act |-> act]

Lambda(fn) == [kind |-> "lambda", n |-> 0, k |-> 0, act |-> fn]

StageNames == <<"conv1", "pool1", "conv2", "pool2", "conv3", "pool3",
                "conv4", "pool4", "flatten", "dense1", "lambda", "dense2">>

\* SiameseNetwork.build: the Sequential model, layer by layer.
build(kwargs, act61) ==
  LET num_classes == Get(kwargs, "num_classes", 1)
  IN << Conv2D(64, 10, "relu"), MaxPool2D(2),
        Conv2D(128, 7, act61), MaxPool2D(2),
        Conv2D(128, 4, "relu"), MaxPool2D(2),
        Conv2D(256, 4, "relu"), MaxPool2D(2),
        Flatten, Dense(4096, "sigmoid"),
        Lambda("dist_func"),
        Dense(num_classes, "sigmoid") >>

Activate(act, z) == IF act = "relu" THEN Relu(z)
                    ELSE IF act = "sigmoid" THEN Sigmoid(z) ELSE z

\* Variant of ConvOut: padding 'same' instead of the default.
ConvOutSame(h, k) == h

\* Output size of a convolution along one axis: padding 'valid', stride 1.
ConvOut(h, k) == h - k + 1

\* Output size of a pooling along one axis: padding 'valid', stride = pool size.
PoolOut(h, k) == h \div k

\* dist_func used as a one-input element-wise layer.
DistFuncLayer(v) == [i \in 1..Len(v) |-> Abs(v[i])]

\* One layer applied to tensor t with the layer's own weights w; inDim is the
\* input width the layer's kernel was built for (dense layers, 0 = not built).
\* ok = FALSE when the layer cannot be applied to a tensor of this shape.
ApplyLayer(l, w, t, inDim) ==
  LET s == t.shape
  IN CASE l.kind = "conv" ->
            IF Len(s) = 4 /\ s[2] >= l.k /\ s[3] >= l.k
            THEN [ok |-> TRUE,
                  shape |-> <<s[1], ConvOut(s[2], l.k), ConvOut(s[3], l.k), l.n>>,
                  val |-> <<Activate(l.act, w * t.val[1])>>]
            ELSE [ok |-> FALSE, shape |-> s, val |-> t.val]
       [] l.kind = "pool" ->
            IF Len(s) = 4 /\ s[2] >= l.k /\ s[3] >= l.k
            THEN [ok |-> TRUE,
                  shape |-> <<s[1], PoolOut(s[2], l.k), PoolOut(s[3], l.k), s[4]>>,
                  val |-> t.val]
            ELSE [ok |-> FALSE, shape |-> s, val |-> t.val]
       [] l.kind = "flatten" ->
            IF Len(s) = 4
            THEN [ok |-> TRUE, shape |-> <<s[1], s[2] * s[3] * s[4]>>, val |-> t.val]
            ELSE [ok |-> FALSE, shape |-> s, val |-> t.val]
       [] l.kind = "dense" ->
            IF Len(s) = 2 /\ (inDim = 0 \/ s[2] = inDim)
            THEN [ok |-> TRUE,
                  shape |-> <<s[1], l.n>>,
                  val |-> [i \in 1..Min(l.n, VDim) |->
                             Activate(l.act, w[i] * SumSeq(t.val))]]
            ELSE [ok |-> FALSE, shape |-> s, val |-> t.val]
       [] l.kind = "lambda" ->
            [ok |-> TRUE, shape |-> s, val |-> DistFuncLayer(t.val)]

\* The layers applied in order from layer i on; stops at the first layer that
\* cannot be applied and names it.  seen collects the shapes produced so far.
RECURSIVE RunFrom(_, _, _, _, _, _)
RunStep(layers, dims, p, i, seen, r) ==
  IF ~r.ok THEN [err |-> StageNames[i], out |-> NoTensor, seen |-> seen]
  ELSE RunFrom(layers, dims, p, [shape |-> r.shape, val |-> r.val], i + 1,
               Append(seen, r.shape))

RunFrom(layers, dims, p, t, i, seen) ==
  IF i > Len(layers) THEN [err |-> "none", out |-> t, seen |-> seen]
  ELSE RunStep(layers, dims, p, i, seen, ApplyLayer(layers[i], p[i], t, dims[i]))

Run(layers, dims, p, t) == RunFrom(layers, dims, p, t, 1, <<>>)

\* --------------------------------------------------------------- parameters
\* One parameter set of the Sequential model: the weights of each layer.
Params(c, d, o) ==
  [i \in 1..Len(StageNames) |->
     IF i \in {1, 3, 5, 7} THEN c
     ELSE IF i = 10 THEN d
     ELSE IF i = 12 THEN [j \in 1..VDim |-> o]
     ELSE 0]

\* dense weights of the sampled units: unit j has weight (w + j) mod (MaxWeight + 1)
DenseWeights(w) == [j \in 1..VDim |-> (w + j) % (MaxWeight + 1)]

ParamSets == {Params(c, DenseWeights(c), 1) : c \in -1..MaxWeight}


\* the values a separately initialised encoder would hold
SeparateParams == Params(1, DenseWeights(1), 1)

\* ------------------------------------------------------------ BaseNetwork
\* self.distance: the L1 distance sub-model, |e1 - e2| element-wise.
distance(pair) ==
  LET a == pair[1]
      b == pair[2]
  IN IF a.shape = b.shape
     THEN [ok |-> TRUE,
           out |-> [shape |-> a.shape,
                    val |-> [i \in 1..Len(a.val) |-> Abs(a.val[i] - b.val[i])]]]
     ELSE [ok |-> FALSE, out |-> NoTensor]

\* self.prediction: dense layer of `width` units with sigmoid activation; its
\* kernel has weight -1 on every sampled component (a larger distance gives a
\* smaller similarity).
prediction(d, width) ==
  [shape |-> <<d.shape[1], width>>,
   val |-> [j \in 1..Min(width, VDim) |-> Sigmoid(-SumSeq(d.val))]]

NoNet == [in_shape |-> <<>>, layers |-> <<>>, dims |-> <<>>, flat |-> 0,
          enc |-> 0, width |-> 0]

\* BaseNetwork.__init__(**kwargs): takes input_shape from kwargs, builds the
\* one Sequential model with the kwargs it received and keeps it as the
\* encoder; the layers are built against in_shape as they are added.
BaseNetwork__init__(kwargs, act61, p0) ==
  LET in_shape == Get(kwargs, "input_shape", DefaultShape)
      layers == build(kwargs, act61)
      zero == [i \in 1..Len(layers) |-> 0]
      r == Run(layers, zero, p0, Image(in_shape, 0))
      dims == [i \in 1..Len(layers) |->
                 IF i > 1 /\ i <= Len(r.seen) + 1 /\ layers[i].kind = "dense"
                 THEN r.seen[i - 1][2] ELSE 0]
  IN [err |-> r.err,
      net |-> IF r.err # "none" THEN NoNet
              ELSE [in_shape |-> in_shape, layers |-> layers, dims |-> dims,
                    flat |-> r.seen[9][2], enc |-> 1,
                    width |-> Get(kwargs, "num_classes", 1)]]

\* SiameseNetwork.__init__(num_classes, **kwargs): super().__init__(**kwargs)
SiameseNetwork__init__(num_classes, kwargs, act61, p0) ==
  BaseNetwork__init__(kwargs, act61, p0)

\* ------------------------------------------------------ SiameseNetwork.call
NoCall == [called |-> FALSE, inputs |-> <<>>, training |-> "absent",
           first |-> NoTensor, second |-> NoTensor, distance |-> NoTensor,
           pred |-> NoTensor, ret |-> <<>>, err |-> "none", tower |-> 0]

\* Variant of FirstTowerParams: the first tower is an encoder of its own.
FirstTowerParamsSeparate == SeparateParams

\* The parameter values the first tower application reads (line 109).
FirstTowerParams == store[net.enc]

\* Variant of SecondTowerParams: the second tower is an encoder of its own.
SecondTowerParamsSeparate == SeparateParams

\* The parameter values the second tower application reads (line 110).
SecondTowerParams == store[net.enc]

\* self.__encoder(x) under parameter values p
Encoder(p, x) == Run(net.layers, net.dims, p, x)

\* inputs[0] (line 109); an IndexError when the list is empty
FirstTowerInput(inputs) ==
  IF Len(inputs) >= 1 THEN [ok |-> TRUE, x |-> inputs[1]]
  ELSE [ok |-> FALSE, x |-> NoTensor]

\* Variant of SecondTowerInput: inputs[-1]
SecondTowerInputLast(inputs) ==
  IF Len(inputs) >= 1 THEN [ok |-> TRUE, x |-> inputs[Len(inputs)]]
  ELSE [ok |-> FALSE, x |-> NoTensor]

\* inputs[1] (line 110); an IndexError when the list is shorter
SecondTowerInput(inputs) ==
  IF Len(inputs) >= 2 THEN [ok |-> TRUE, x |-> inputs[2]]
  ELSE [ok |-> FALSE, x |-> NoTensor]

\* Variant of PredictionInput: self.prediction(first)
PredictionInputFirst(first, second, dist) == first

\* the argument of self.prediction (line 116)
PredictionInput(first, second, dist) == dist

\* Variant of CallReturn: the return of the comment on lines 118-119,
\* the distance too unless in training mode
CallReturnByMode(training, dist, pred) ==
  IF training = "true" THEN <<pred>> ELSE <<dist, pred>>

\* the value returned (line 120): the prediction, whatever training is
CallReturn(training, dist, pred) == <<pred>>

Failed(inputs, training, stage, tower, first, second, dist) ==
  [called |-> TRUE, inputs |-> inputs, training |-> training,
   first |-> first, second |-> second, distance |-> dist,
   pred |-> NoTensor, ret |-> <<>>, err |-> stage, tower |-> tower]

CallFinish(inputs, training, first, second, dist, pred) ==
  [called |-> TRUE, inputs |-> inputs, training |-> training,
   first |-> first, second |-> second, distance |-> dist, pred |-> pred,
   ret |-> CallReturn(training, dist, pred), err |-> "none", tower |-> 0]

\* lines 112-120: distance, prediction, return
CallHead(inputs, training, first, second, d) ==
  IF ~d.ok
  THEN Failed(inputs, training, "distance", 0, first, second, NoTensor)
  ELSE CallFinish(inputs, training, first, second, d.out,
                  prediction(PredictionInput(first, second, d.out), net.width))

CallDistance(inputs, training, first, second) ==
  IF second.err # "none"
  THEN Failed(inputs, training, second.err, 2, first, NoTensor, NoTensor)
  ELSE CallHead(inputs, training, first, second.out, distance(<<first, second.out>>))

\* line 110: the second tower
CallSecond(inputs, training, first, i2) ==
  IF ~i2.ok
  THEN Failed(inputs, training, "IndexError", 2, first, NoTensor, NoTensor)
  ELSE CallDistance(inputs, training, first, Encoder(SecondTowerParams, i2.x))

CallAfterFirst(inputs, training, first) ==
  IF first.err # "none"
  THEN Failed(inputs, training, first.err, 1, NoTensor, NoTensor, NoTensor)
  ELSE CallSecond(inputs, training, first.out, SecondTowerInput(inputs))

\* line 109: the first tower
CallFirst(inputs, training, i1) ==
  IF ~i1.ok
  THEN Failed(inputs, training, "IndexError", 1, NoTensor, NoTensor, NoTensor)
  ELSE CallAfterFirst(inputs, training, Encoder(FirstTowerParams, i1.x))

\* SiameseNetwork.call(inputs, training=...): the record of one call.
call(inputs, training) == CallFirst(inputs, training, FirstTowerInput(inputs))

\* ----------------------------------------------------------------- actions
NoCtor == [made |-> FALSE, num_classes |-> 0]

\* keyword arguments given to the constructor besides num_classes
KwargsSets == {NoKwargs, [loss_func |-> "triplet_loss"],
               [input_shape |-> SmallShape]}

RECURSIVE SeqsUpTo(_, _)
SeqsUpTo(S, n) ==
  IF n = 0 THEN {<<>>}
  ELSE LET shorter == SeqsUpTo(S, n - 1)
       IN shorter \cup {Append(q, x) : q \in {r \in shorter : Len(r) = n - 1}, x \in S}

RECURSIVE Extend(_, _, _)
Extend(q, x, n) == IF n = 0 THEN q ELSE Extend(Append(q, x), x, n - 1)

\* Collections handed to call: every list of at most two images, and every
\* pair followed by up to MaxArity - 2 further tensors.
InputLists ==
  SeqsUpTo(Images, 2) \cup
  {Extend(q, Image(SmallShape, 0), n) : q \in {r \in SeqsUpTo(Images, 2) : Len(r) = 2},
                                        n \in 1..(MaxArity - 2)}

\* Before the module is compiled.  Line 61 as committed does not compile, so
\* no network ever exists for it; the behaviours that start with line 61 read
\* as 'relu' are the ones in which build and call run.
Init ==
  /\ pc = "source"
  /\ line61 \in Line61Texts
  /\ ctor = NoCtor
  /\ net = NoNet
  /\ store = <<>>
  /\ last = NoCall
  /\ errStage = "none"

\* The module is compiled; line 61 as committed is not an expression.
Import ==
  /\ pc = "source"
  /\ IF line61 = "relu"
     THEN pc' = "loaded" /\ errStage' = "none"
     ELSE pc' = "error" /\ errStage' = "SyntaxError"
  /\ UNCHANGED <<line61, ctor, net, store, last>>

\* net = SiameseNetwork(num_classes=k, **kw); the initial weights p0 are random.
Construct(k, kw, p0) ==
  /\ pc = "loaded"
  /\ LET r == SiameseNetwork__init__(k, kw, line61, p0)
     IN /\ ctor' = [made |-> TRUE, num_classes |-> k]
        /\ IF r.err = "none"
           THEN pc' = "ready" /\ net' = r.net /\ store' = <<p0>> /\ errStage' = "none"
           ELSE pc' = "error" /\ net' = NoNet /\ store' = <<>> /\ errStage' = r.err
  /\ UNCHANGED <<line61, last>>

\* net(inputs, training=...)
Call(inputs, training) ==
  /\ pc = "ready"
  /\ last' = call(inputs, training)
  /\ UNCHANGED <<pc, line61, ctor, net, store, errStage>>

\* A training procedure outside this file assigns new values to the encoder's
\* parameters.
Train(p) ==
  /\ pc = "ready"
  /\ p # store[net.enc]
  /\ store' = [store EXCEPT ![net.enc] = p]
  /\ last' = NoCall
  /\ UNCHANGED <<pc, line61, ctor, net, errStage>>

Next ==
  \/ Import
  \/ \E k \in 1..MaxClasses, kw \in KwargsSets, p0 \in ParamSets : Construct(k, kw, p0)
  \/ \E inputs \in InputLists, training \in {"absent", "true", "false"} :
       Call(inputs, training)
  \/ \E p \in ParamSets : Train(p)

Spec == Init /\ [][Next]_vars

\* ------------------------------------------------------------------ claims
Trainings == {"absent", "true", "false"}

GoodImages == {x \in Images : x.shape = <<1>> \o net.in_shape}

IsSmall(x) == x.shape = <<1>> \o SmallShape

Zero(v) == \A i \in 1..Len(v) : v[i] = 0

Swap(q) == <<q[2], q[1]>>

\* the pair of line 129-133
MainPair(q) == Len(q) = 2 /\ q[1].shape = <<1>> \o DefaultShape
                          /\ q[2].shape = <<1>> \o DefaultShape

\* C1: one encoder parameter set exists, both tower applications read it, and
\* the embedding computed for an image x as inputs[0] of one call equals the
\* embedding computed for x as inputs[1] of another call.
C1_WeightSharing ==
  pc = "ready" =>
    /\ Cardinality(DOMAIN store) = 1
    /\ FirstTowerParams = SecondTowerParams
    /\ \A x \in GoodImages, y \in GoodImages :
         call(<<x, y>>, "absent").first = call(<<y, x>>, "absent").second
    /\ (last.called /\ last.err = "none" /\ last.inputs[1] = last.inputs[2]
          => last.first = last.second)

\* a call on two different images ran both towers and the embeddings differ
C1_Witness ==
  /\ pc = "ready" /\ last.called /\ last.err = "none"
  /\ last.inputs[1] # last.inputs[2]
  /\ last.first.val # last.second.val

\* C2: the call on the swapped pair gives the same distance score and the same
\* prediction as the last call on a pair of images of the configured shape.
C2_Symmetry ==
  (pc = "ready" /\ last.called /\ Len(last.inputs) = 2
     /\ last.inputs[1] \in GoodImages /\ last.inputs[2] \in GoodImages)
  => /\ last.err = "none"
     /\ call(Swap(last.inputs), last.training).err = "none"
     /\ call(Swap(last.inputs), last.training).distance = last.distance
     /\ call(Swap(last.inputs), last.training).pred = last.pred
     /\ call(Swap(last.inputs), last.training).ret = last.ret

\* a call on a pair whose two embeddings differ, so the distance is not zero
C2_Witness ==
  /\ pc = "ready" /\ last.called /\ last.err = "none" /\ Len(last.inputs) = 2
  /\ ~Zero(last.distance.val)

\* C3: a call on [x, x] computes the all-zero distance score.
C3_Identity ==
  (pc = "ready" /\ last.called /\ Len(last.inputs) >= 2
     /\ last.inputs[1] = last.inputs[2] /\ last.inputs[1] \in GoodImages)
  => /\ last.err = "none"
     /\ last.distance.shape = last.first.shape
     /\ Len(last.distance.val) >= 1
     /\ Zero(last.distance.val)

\* a call on [x, x] where the embedding of x is itself not zero
C3_Witness ==
  /\ pc = "ready" /\ last.called /\ last.err = "none"
  /\ last.inputs[1] = last.inputs[2]
  /\ ~Zero(last.first.val)
  /\ Zero(last.distance.val)

\* C4: a network constructed with num_classes = k returns a prediction with k
\* components per pair, and k is the unit count of the final dense layer.
C4_OutputWidth ==
  (pc = "ready" /\ ctor.made) =>
    /\ net.layers[Len(net.layers)].n = ctor.num_classes
    /\ net.width = ctor.num_classes
    /\ (last.called /\ last.err = "none" => last.pred.shape[2] = ctor.num_classes)

\* C5: the pipeline applied to one image is the ten layers Conv(64,10), pool,
\* Conv(128,7), pool, Conv(128,4), pool, Conv(256,4), pool, Flatten,
\* Dense(4096, sigmoid), and its output is the length-4096 embedding.
C5_EncoderPipeline ==
  pc = "ready" =>
    /\ net.layers = << Conv2D(64, 10, "relu"), MaxPool2D(2),
                       Conv2D(128, 7, "relu"), MaxPool2D(2),
                       Conv2D(128, 4, "relu"), MaxPool2D(2),
                       Conv2D(256, 4, "relu"), MaxPool2D(2),
                       Flatten, Dense(4096, "sigmoid") >>
    /\ (last.called /\ last.first # NoTensor => last.first.shape = <<1, 4096>>)

\* C6: the default scenario (the script of lines 123-137: compile, construct
\* with default arguments, call on a pair of 1x105x105x1 tensors) reaches no
\* error state and yields a prediction of shape (1, 1).
C6_DefaultScenario ==
  /\ (pc = "error" => ctor.made /\ errStage # "SyntaxError")
  /\ (pc = "ready" /\ ctor.num_classes = 1 /\ net.in_shape = DefaultShape
        /\ last.called /\ MainPair(last.inputs)
      => last.err = "none" /\ last.pred.shape = <<1, 1>>)

\* C7 as stated: a 28x28x1 image given to a network configured for 105x105x1
\* ends in an error that arises at the first convolution.
C7_FailsAtFirstConv ==
  (pc = "ready" /\ net.in_shape = DefaultShape /\ last.called
     /\ Len(last.inputs) >= 1 /\ IsSmall(last.inputs[1]))
  => last.err = "conv1"

\* C7 amended: the call ends in an error, and the error arises at the third
\* convolution of the tower the image is given to (the first convolution and
\* the layers up to the second pooling accept it).
C7_FailsAtThirdConv ==
  (pc = "ready" /\ net.in_shape = DefaultShape /\ last.called)
  => /\ (Len(last.inputs) >= 1 /\ IsSmall(last.inputs[1])
           => last.err = "conv3" /\ last.tower = 1 /\ last.ret = <<>>)
     /\ (Len(last.inputs) >= 2 /\ ~IsSmall(last.inputs[1]) /\ IsSmall(last.inputs[2])
           => last.err = "conv3" /\ last.tower = 2 /\ last.ret = <<>>)

\* a 28x28x1 image was given to a 105x105x1 network as inputs[1]
C7_Witness ==
  /\ pc = "ready" /\ net.in_shape = DefaultShape /\ last.called
  /\ Len(last.inputs) >= 2 /\ ~IsSmall(last.inputs[1]) /\ IsSmall(last.inputs[2])
  /\ last.err = "conv3" /\ last.tower = 2

\* C8 as stated: call fails whenever its input collection does not have
\* exactly two elements.
C8_FailsUnlessTwo ==
  (pc = "ready" /\ last.called /\ Len(last.inputs) # 2) => last.err # "none"

\* C8 amended: call fails with an IndexError on a collection of fewer than two
\* elements (when the first tower accepts inputs[0]); on a collection of more
\* than two elements it behaves as on its first two, ignoring the rest.
C8_ArityAmended ==
  (pc = "ready" /\ last.called) =>
    /\ (Len(last.inputs) < 2 => last.err # "none" /\ last.ret = <<>>)
    /\ (Len(last.inputs) = 0 => last.err = "IndexError" /\ last.tower = 1)
    /\ (Len(last.inputs) = 1 /\ last.inputs[1] \in GoodImages
          => last.err = "IndexError" /\ last.tower = 2)
    /\ (Len(last.inputs) > 2 =>
          /\ call(SubSeq(last.inputs, 1, 2), last.training).err = last.err
          /\ call(SubSeq(last.inputs, 1, 2), last.training).ret = last.ret
          /\ call(SubSeq(last.inputs, 1, 2), last.training).distance = last.distance)

\* a call on more than two tensors returned a prediction
C8_Witness ==
  /\ pc = "ready" /\ last.called /\ Len(last.inputs) > 2
  /\ last.err = "none" /\ last.ret = <<last.pred>>

C10_FlattenSize ==
  (pc = "ready" /\ net.in_shape = DefaultShape) =>
    /\ net.flat = 9216
    /\ net.dims[10] = 9216
    /\ net.layers[10].n = 4096

====
